---------------------------- MODULE Spec2Model ----------------------------
(***************************************************************************)
(* A model of src/casmonitor.py: the sampling cycle get_system_info, the   *)
(* bounded histories (deque(maxlen=...)), the event log log_system_event   *)
(* and the /api/system_log reader.                                         *)
(*                                                                         *)
(* The server handles every request in a thread of its own, so a handler   *)
(* is modelled as a sequence of steps of a worker thread; a step is one    *)
(* access to the shared module-level state (SYSTEM_LOG, system_state, the  *)
(* history deques), which is what the interpreter makes atomic.  The label *)
(* of a step is the source line it executes (pc = "l125" is about to run   *)
(* line 125).                                                              *)
(*                                                                         *)
(* Variables whose comment says "history variable" record what happened    *)
(* and are never read by a step of the program.                            *)
(***************************************************************************)
EXTENDS Integers, Sequences, FiniteSets, TLC

VARIABLES
    scenario,            \* the host the run is exposed to (selects the input sets)
    workers,             \* the request threads that may run
    files,               \* files[path]: where the file or directory at path is
    delete_reply,        \* delete_reply[t]: what thread t's last delete_file returned
    process_table,       \* the processes of the host, in the order process_iter yields them
    SYSTEM_LOG,          \* line 27
    cpu_history,         \* line 37
    memory_history,      \* line 38
    network_history,     \* line 39
    temperature_history, \* line 41
    disk_history,        \* line 42
    system_state,        \* line 55
    pc,                  \* pc[t]: the line thread t is about to execute, or "idle"
    loc,                 \* loc[t]: the local variables of thread t's handler
    retval,              \* retval[t]: what thread t's last get_system_info returned
    log_reply,           \* log_reply[t]: what thread t's last get_system_log returned
    top_reply,           \* top_reply[t]: what thread t's process ranking request returned
    perf_reply,          \* perf_reply[t]: what thread t's last get_system_performance_data returned
    cyc,                 \* history variable: facts about thread t's current/last cycle
    recorded,            \* history variable: every entry ever appended to SYSTEM_LOG
    appended,            \* history variable: every value ever appended, per history,
                         \* and (by) the number of the cycle that appended it
    ncycles,             \* number of get_system_info calls so far
    nlog,                \* number of log_system_event calls so far
    nreads               \* number of get_system_log calls so far

vars == <<scenario, workers, files, delete_reply, process_table, top_reply, perf_reply, SYSTEM_LOG, cpu_history, memory_history,
          network_history, temperature_history, disk_history, system_state,
          pc, loc, retval, log_reply, cyc, recorded, appended,
          ncycles, nlog, nreads>>

histories == <<cpu_history, memory_history, network_history,
               temperature_history, disk_history, appended>>

\* what no step of get_system_info or log_system_event writes
fs == <<files, delete_reply>>
env == <<scenario, workers, fs, process_table, top_reply, perf_reply>>

-----------------------------------------------------------------------------
(* Program constants *)

MAX_LOG_ENTRIES == 100
CPU_HISTORY_SIZE == 60
MEMORY_HISTORY_SIZE == 60
NETWORK_HISTORY_SIZE == 60
TEMPERATURE_HISTORY_SIZE == 60
DISK_HISTORY_SIZE == 60
\* SYSTEM_LOG[-50:] in get_system_log
LOG_WINDOW == 50
\* [:10] in get_process_list and get_top_processes_by_*
TOP_N == 10

(* Bounds of the model *)

\* cycles of a run of the rate scenario
MaxCyclesRate == 3
\* cycles of a run of the history scenario (beyond the capacity of 60)
MaxCyclesHist == 62
\* cycles of a run of the concurrent scenario
MaxCyclesConc == 2
\* cycles of a run of the alert scenario
MaxCyclesAlert == 2
\* cycles of a run of the degraded scenario
MaxCyclesDegrade == 2
\* cycles of a run of the concurrent scenario with steady counters
MaxCyclesMono == 2
\* log_system_event calls of a run of the log scenario (beyond the capacity of 100)
MaxLogEvents == 102
\* get_system_log calls of a run
MaxReads == 1
\* delete_file requests of a run
MaxDeletes == 3
\* processes of the host of the ranking scenario (beyond the 10 of a ranking)
MaxProcs == 12
\* processes of that host that are not idle ones
MaxUnusual == 2
\* cycles (or events) at the start of a long run whose inputs are free
FreeCycles == 2

Threads == {1, 2}

-----------------------------------------------------------------------------
(* Values *)

\* Python's None / a present value, for system_state['last_network']
None == <<>>
Some(x) == <<x>>

Abs(x) == IF x < 0 THEN -x ELSE x
Min(a, b) == IF a < b THEN a ELSE b
Max(a, b) == IF a > b THEN a ELSE b

RECURSIVE GCD(_, _)
GCD(a, b) == IF b = 0 THEN a ELSE GCD(b, a % b)

\* A rate is the exact quotient dv/dt in lowest terms with den > 0: Python's
\* float division dv / dt, for dt # 0.
Zero == [num |-> 0, den |-> 1]
Quotient(dv, dt) ==
    LET g == GCD(Abs(dv), Abs(dt))
        q == Abs(dv) \div g
    IN  [num |-> IF (dv < 0) # (dt < 0) THEN -q ELSE q, den |-> Abs(dt) \div g]

\* deque(maxlen=n).append(x): a full deque drops its oldest (leftmost) entry
DequeDropNewest(d, x, maxlen) ==
    IF Len(d) >= maxlen THEN d ELSE Append(d, x)
DequeUnbounded(d, x, maxlen) == Append(d, x)
DequeAppendLeft(d, x, maxlen) ==
    IF Len(d) >= maxlen THEN <<x>> \o SubSeq(d, 1, Len(d) - 1) ELSE <<x>> \o d
DequeAppend(d, x, maxlen) ==
    IF Len(d) >= maxlen THEN Append(Tail(d), x) ELSE Append(d, x)

\* s[-n:], n > 0
SliceFirst(s, n) == SubSeq(s, 1, Min(n, Len(s)))
SliceLast(s, n) == SubSeq(s, Max(1, Len(s) - n + 1), Len(s))

EmptySnapshot == [empty |-> TRUE]


-----------------------------------------------------------------------------
(* Inputs: what the operating system answers.  A long run (the history and *)
(* the log scenario) draws its inputs freely during its first FreeCycles   *)
(* cycles and from a fixed script, one distinct value per cycle, after     *)
(* that; the short scenarios draw every input freely.                      *)

Free == ncycles <= FreeCycles
\* the scenarios of a long run
Long == scenario \in {"hist", "perf"}

MaxCycles ==
    CASE scenario = "rate" -> MaxCyclesRate
      [] Long -> MaxCyclesHist
      [] scenario = "conc" -> MaxCyclesConc
      [] scenario = "alerts" -> MaxCyclesAlert
      [] scenario = "degrade" -> MaxCyclesDegrade
      [] scenario = "mono" -> MaxCyclesMono
      [] OTHER -> 0

\* psutil.cpu_percent(interval=0.5)
CpuReadings ==
    CASE Long -> (IF Free THEN {ncycles % 100, 90} ELSE {ncycles % 100})
      [] scenario = "alerts" -> {79, 80, 81}
      [] OTHER -> {50}
\* psutil.virtual_memory().percent
MemoryReadings ==
    CASE Long -> {(3 * ncycles) % 100}
      [] scenario = "alerts" -> {80, 85}
      [] OTHER -> {40}
\* psutil.disk_usage('/').percent
DiskReadings == IF scenario = "alerts" THEN {50, 80, 81} ELSE {30}
\* whether one of the reads of lines 104-116 raises
GaugeRaises == IF Long /\ ~Free THEN {FALSE} ELSE BOOLEAN

NoReading == [bytes_sent |-> 0, bytes_recv |-> 0]
\* psutil.net_io_counters(): cumulative counters; a lower value than before
\* is a counter reset
NetReadings ==
    CASE scenario = "rate" ->
           {[bytes_sent |-> s, bytes_recv |-> r] : s \in {10, 1000}, r \in {10, 1000}}
      [] scenario \in {"hist", "perf", "alerts", "degrade", "mono"} ->
           {[bytes_sent |-> ncycles * ncycles, bytes_recv |-> 2 * ncycles]}
      [] OTHER ->
           {[bytes_sent |-> 10, bytes_recv |-> 10],
            [bytes_sent |-> 1000, bytes_recv |-> 500]}
\* whether psutil.net_io_counters() raises
NetRaises == IF scenario \in {"rate", "degrade"} THEN BOOLEAN ELSE {FALSE}

\* time.time(): the wall clock, which an adjustment may set back
TimeReadings ==
    CASE scenario \in {"hist", "perf", "alerts", "degrade", "mono"} -> {ncycles}
      [] OTHER -> {0, 4}

\* psutil.sensors_temperatures(): whether the platform has it, whether the
\* call raises, and the entries it yields (high = 0 stands for None)
\* fail_at = i > 0: reading entry i raises
NoTemperatures == [supported |-> TRUE, raises |-> FALSE, fail_at |-> 0, entries |-> <<>>]
TwoSensors ==
    <<[label |-> "coretemp", current |-> 45, high |-> 0],
      [label |-> "nvme", current |-> 38, high |-> 70]>>
TemperatureReadings ==
    IF scenario = "degrade"
    THEN {[NoTemperatures EXCEPT !.entries = TwoSensors],
          [NoTemperatures EXCEPT !.supported = FALSE],
          [NoTemperatures EXCEPT !.raises = TRUE],
          [NoTemperatures EXCEPT !.entries = TwoSensors, !.fail_at = 2]}
    ELSE {[NoTemperatures EXCEPT
             !.entries = <<[label |-> "coretemp",
                            current |-> IF Long THEN 40 + (ncycles % 7) ELSE 45,
                            high |-> 0]>>]}

\* psutil.disk_partitions() and psutil.disk_usage(mountpoint) of each:
\* outcome "ok", "permission" (PermissionError) or "error" (another exception)
NoPartitions == [raises |-> FALSE, partitions |-> <<>>]
ThreePartitions(outcome) ==
    <<[device |-> "sda1", mountpoint |-> "/", fstype |-> "ext4",
       outcome |-> "ok", used |-> 1, total |-> 4],
      [device |-> "sdb1", mountpoint |-> "/mnt/secure", fstype |-> "ext4",
       outcome |-> outcome, used |-> 2, total |-> 4],
      [device |-> "sdc1", mountpoint |-> "/data", fstype |-> "xfs",
       outcome |-> "ok", used |-> 3, total |-> 4]>>
PartitionReadings ==
    IF scenario = "degrade"
    THEN {[NoPartitions EXCEPT !.partitions = ThreePartitions("ok")],
          [NoPartitions EXCEPT !.partitions = ThreePartitions("permission")],
          [NoPartitions EXCEPT !.partitions = ThreePartitions("error")],
          [NoPartitions EXCEPT !.raises = TRUE]}
    ELSE {[NoPartitions EXCEPT
             !.partitions = <<[device |-> "sda1", mountpoint |-> "/", fstype |-> "ext4",
                               outcome |-> "ok",
                               used |-> IF Long THEN ncycles % 5 ELSE 1,
                               total |-> 4]>>]}

\* psutil.process_iter(...) and proc.as_dict(...): a process is idle, heavy
\* on one metric while the other is not readable (None), or gone by the time
\* it is read (NoSuchProcess, AccessDenied, ZombieProcess)
IdleProcess == [outcome |-> "ok", cpu_percent |-> Some(5), memory_percent |-> Some(5)]
UnusualProcesses ==
    {[outcome |-> "ok", cpu_percent |-> Some(90), memory_percent |-> None],
     [outcome |-> "ok", cpu_percent |-> None, memory_percent |-> Some(90)],
     [outcome |-> "gone", cpu_percent |-> None, memory_percent |-> None]}
Unusual(table) ==
    Cardinality({i \in 1 .. Len(table) :
                    [f \in DOMAIN IdleProcess |-> table[i][f]] # IdleProcess})
ProcessReadings ==
    {IdleProcess} \cup (IF Unusual(process_table) < MaxUnusual THEN UnusualProcesses ELSE {})

\* the paths a delete request may name: a file and a directory
Paths == {"notes.txt", "photos"}
IsDir(path) == path = "photos"

-----------------------------------------------------------------------------
(* Initial state: the module-level assignments of lines 27-64 *)

InitLoc ==
    [cpu_percent |-> 0, memory_percent |-> 0, disk_percent |-> 0,
     network |-> NoReading, time_delta |-> 0,
     sent_rate |-> Zero, recv_rate |-> Zero,
     temperatures |-> <<>>, disk_partitions |-> <<>>, alerts |-> <<>>,
     processes |-> <<>>, metric |-> "",
     log_entry |-> [level |-> "info", message |-> "", serial |-> 0],
     ret_pc |-> "idle"]

InitCyc ==
    [done |-> FALSE, failed |-> FALSE, read_net |-> FALSE, computed |-> FALSE,
     baseline |-> FALSE, prev_net |-> NoReading, prev_time |-> 0, tcur |-> 0,
     stats0 |-> [bytes_sent_per_sec |-> Zero, bytes_recv_per_sec |-> Zero],
     wrote |-> [bytes_sent_per_sec |-> Zero, bytes_recv_per_sec |-> Zero],
     gauge_raised |-> FALSE, net_raised |-> FALSE,
     temp_read |-> FALSE, temp |-> NoTemperatures,
     parts_read |-> FALSE, parts |-> NoPartitions,
     app |-> [cpu |-> 0, memory |-> 0, network |-> 0, temperature |-> 0, disk |-> 0],
     logged0 |-> 0, n |-> 0]

InitLogReply == [served |-> FALSE, n |-> 0, value |-> <<>>, log |-> <<>>]
\* a list object: one made by list(d), with the items d had then, or (live)
\* the deque itself
InitPerfReply ==
    [served |-> FALSE,
     cpu_history |-> [live |-> FALSE, items |-> <<>>],
     memory_history |-> [live |-> FALSE, items |-> <<>>],
     network_history |-> [live |-> FALSE, items |-> <<>>],
     seen |-> [cpu_history |-> <<>>, memory_history |-> <<>>, network_history |-> <<>>]]
InitDeleteReply == [served |-> FALSE, path |-> "", permanent |-> FALSE, status |-> ""]
InitTopReply == [served |-> FALSE, request |-> "", table |-> <<>>, value |-> <<>>]

\* everything but the event log
InitQuiet ==
    /\ cpu_history = <<>>
    /\ memory_history = <<>>
    /\ network_history = <<>>
    /\ temperature_history = <<>>
    /\ disk_history = <<>>
    /\ system_state =
         [is_running |-> TRUE,
          last_network |-> None,
          last_time |-> 0,
          network_stats |-> [bytes_sent_per_sec |-> Zero, bytes_recv_per_sec |-> Zero],
          temperature_data |-> <<>>,
          disk_data |-> <<>>]
    /\ pc = [t \in Threads |-> "idle"]
    /\ loc = [t \in Threads |-> InitLoc]
    /\ retval = [t \in Threads |-> EmptySnapshot]
    /\ log_reply = [t \in Threads |-> InitLogReply]
    /\ process_table = <<>>
    /\ files = [path \in Paths |-> "present"]
    /\ delete_reply = [t \in Threads |-> InitDeleteReply]
    /\ top_reply = [t \in Threads |-> InitTopReply]
    /\ perf_reply = [t \in Threads |-> InitPerfReply]
    /\ cyc = [t \in Threads |-> InitCyc]
    /\ appended = [cpu |-> <<>>, memory |-> <<>>, network |-> <<>>,
                   temperature |-> <<>>, disk |-> <<>>,
                   by |-> [cpu |-> <<>>, memory |-> <<>>, network |-> <<>>,
                           temperature |-> <<>>, disk |-> <<>>]]
    /\ ncycles = 0
    /\ nreads = 0

InitState ==
    /\ InitQuiet
    /\ SYSTEM_LOG = <<>>
    /\ recorded = <<>>
    /\ nlog = 0

\* a server that has so far terminated processes on request, one request at
\* a time, and has logged two events fewer than the log holds
NearlyFull ==
    [i \in 1 .. MAX_LOG_ENTRIES - 2 |->
       [level |-> "info", message |-> "Terminated process", serial |-> i]]

Init == scenario = "rate" /\ workers = {1} /\ InitState
HistInit == scenario = "hist" /\ workers = {1} /\ InitState
LogInit == scenario = "log" /\ workers = {1} /\ InitState
ConcInit == scenario = "conc" /\ workers = {1, 2} /\ InitState
DegradeInit == scenario = "degrade" /\ workers = {1} /\ InitState
PerfInit == scenario = "perf" /\ workers = {1} /\ InitState
DeleteInit == scenario = "delete" /\ workers = {1} /\ InitState
MonoInit == scenario = "mono" /\ workers = {1, 2} /\ InitState
LogConcInit ==
    /\ scenario = "logconc" /\ workers = {1, 2}
    /\ InitQuiet
    /\ SYSTEM_LOG = NearlyFull
    /\ recorded = NearlyFull
    /\ nlog = Len(NearlyFull)
RankInit == scenario = "rank" /\ workers = {1} /\ InitState
AlertInit == scenario = "alerts" /\ workers = {1} /\ InitState

-----------------------------------------------------------------------------
(* log_system_event, lines 66-79 *)

\* the locals of a thread that calls log_system_event(level, message) and
\* continues at ret when the call returns; the caller sets pc to "l74"
LogCall(l, level, message, ret) ==
    [l EXCEPT !.log_entry = [level |-> level, message |-> message, serial |-> nlog + 1],
              !.ret_pc = ret]

\* line 74: SYSTEM_LOG.append(log_entry)
lse_l74(t) ==
    /\ pc[t] = "l74"
    /\ SYSTEM_LOG' = Append(SYSTEM_LOG, loc[t].log_entry)
    /\ recorded' = Append(recorded, loc[t].log_entry)
    /\ pc' = [pc EXCEPT ![t] = "l75"]
    /\ UNCHANGED <<env, histories, system_state, loc, retval,
                   log_reply, cyc, ncycles, nlog, nreads>>

\* line 75: if len(SYSTEM_LOG) > MAX_LOG_ENTRIES; lines 78-79 write the log file
LogOverflowLate(log) == Len(log) > MAX_LOG_ENTRIES + 1
LogOverflow(log) == Len(log) > MAX_LOG_ENTRIES
lse_l75(t) ==
    /\ pc[t] = "l75"
    /\ pc' = [pc EXCEPT ![t] = IF LogOverflow(SYSTEM_LOG) THEN "l76" ELSE loc[t].ret_pc]
    /\ UNCHANGED <<env, SYSTEM_LOG, histories, system_state, loc,
                   retval, log_reply, cyc, recorded, ncycles, nlog, nreads>>

\* line 76: SYSTEM_LOG.pop(0)
PopNewest(log) == SubSeq(log, 1, Len(log) - 1)
Pop0(log) == Tail(log)
lse_l76(t) ==
    /\ pc[t] = "l76"
    /\ SYSTEM_LOG' = Pop0(SYSTEM_LOG)
    /\ pc' = [pc EXCEPT ![t] = loc[t].ret_pc]
    /\ UNCHANGED <<env, histories, system_state, loc, retval,
                   log_reply, cyc, recorded, ncycles, nlog, nreads>>

-----------------------------------------------------------------------------
(* get_system_info, lines 100-213 *)

log == <<SYSTEM_LOG, recorded>>

\* lines 1736 and 399: a request calls get_system_info()
call_get_system_info(t) ==
    /\ t \in workers
    /\ pc[t] = "idle"
    /\ ncycles < MaxCycles
    /\ ncycles' = ncycles + 1
    /\ pc' = [pc EXCEPT ![t] = "l104"]
    /\ loc' = [loc EXCEPT ![t] = InitLoc]
    /\ cyc' = [cyc EXCEPT ![t] = [InitCyc EXCEPT !.stats0 = system_state.network_stats,
                                                 !.logged0 = Len(recorded),
                                                 !.n = ncycles + 1]]
    /\ UNCHANGED <<env, log, histories, system_state, retval, log_reply, nlog, nreads>>

\* lines 102 and 211: where an exception raised at a line of the try block of
\* get_system_info (outside the try blocks of lines 133 and 149) continues;
\* "raised" is an exception that leaves get_system_info
Unhandled(line) == "raised"
Unlogged(line) == "l213"
SkipToAppends(line) == "l192"
Handler(line) == "l212"

\* lines 104-116: the gauges (cpu_cores, cpu_freq, boot_time and uptime are
\* read here too and only copied into the result); a read that raises leaves
\* the try block for line 211
gsi_l104(t) ==
    /\ pc[t] = "l104"
    /\ \E raises \in GaugeRaises, c \in CpuReadings, m \in MemoryReadings, d \in DiskReadings :
         IF raises
         THEN /\ pc' = [pc EXCEPT ![t] = Handler("l104")]
              /\ loc' = loc
              /\ cyc' = [cyc EXCEPT ![t].gauge_raised = TRUE]
         ELSE /\ pc' = [pc EXCEPT ![t] = "l119"]
              /\ loc' = [loc EXCEPT ![t].cpu_percent = c,
                                    ![t].memory_percent = m,
                                    ![t].disk_percent = d]
              /\ cyc' = cyc
    /\ UNCHANGED <<env, log, histories, system_state, retval, log_reply,
                   ncycles, nlog, nreads>>

\* line 119: network = psutil.net_io_counters()
gsi_l119(t) ==
    /\ pc[t] = "l119"
    /\ \E raises \in NetRaises, n \in NetReadings :
         IF raises
         THEN /\ pc' = [pc EXCEPT ![t] = Handler("l119")]
              /\ loc' = loc
              /\ cyc' = [cyc EXCEPT ![t].net_raised = TRUE]
         ELSE /\ pc' = [pc EXCEPT ![t] = "l120"]
              /\ loc' = [loc EXCEPT ![t].network = n]
              /\ cyc' = [cyc EXCEPT ![t].read_net = TRUE]
    /\ UNCHANGED <<env, log, histories, system_state, retval, log_reply,
                   ncycles, nlog, nreads>>

\* line 120: if not system_state['last_network']
gsi_l120(t) ==
    /\ pc[t] = "l120"
    /\ pc' = [pc EXCEPT ![t] = IF system_state.last_network = None THEN "l121" ELSE "l123"]
    /\ UNCHANGED <<env, log, histories, system_state, loc, retval, log_reply, cyc,
                   ncycles, nlog, nreads>>

\* line 121: system_state['last_network'] = network
BaselineOfZero(network) == Some(NoReading)
Baseline(network) == Some(network)

gsi_l121(t) ==
    /\ pc[t] = "l121"
    /\ system_state' = [system_state EXCEPT !.last_network = Baseline(loc[t].network)]
    /\ cyc' = [cyc EXCEPT ![t].baseline = TRUE]
    /\ pc' = [pc EXCEPT ![t] = "l122"]
    /\ UNCHANGED <<env, log, histories, loc, retval, log_reply, ncycles, nlog, nreads>>

\* line 122: system_state['last_time'] = time.time()
gsi_l122(t) ==
    /\ pc[t] = "l122"
    /\ \E now \in TimeReadings :
         system_state' = [system_state EXCEPT !.last_time = now]
    /\ pc' = [pc EXCEPT ![t] = "l123"]
    /\ UNCHANGED <<env, log, histories, loc, retval, log_reply, cyc, ncycles, nlog, nreads>>

\* line 124: if time_delta > 0
ElapsedNonZero(time_delta) == time_delta # 0
ElapsedPositive(time_delta) == time_delta > 0

\* lines 123-124: time_delta = time.time() - system_state['last_time']
gsi_l123(t) ==
    /\ pc[t] = "l123"
    /\ \E now \in TimeReadings :
         LET time_delta == now - system_state.last_time
         IN  /\ loc' = [loc EXCEPT ![t].time_delta = time_delta]
             /\ cyc' = [cyc EXCEPT ![t].tcur = now,
                                   ![t].prev_time = system_state.last_time,
                                   ![t].prev_net = system_state.last_network[1]]
             /\ pc' = [pc EXCEPT ![t] = IF ElapsedPositive(time_delta) THEN "l126" ELSE "l129"]
    /\ UNCHANGED <<env, log, histories, system_state, retval, log_reply,
                   ncycles, nlog, nreads>>

\* lines 126, 127: (network.x - system_state['last_network'].x) / time_delta
RateSwapped(current, previous, time_delta) == Quotient(previous - current, time_delta)
Rate(current, previous, time_delta) == Quotient(current - previous, time_delta)

\* line 126: the value of 'bytes_sent_per_sec'
gsi_l126(t) ==
    /\ pc[t] = "l126"
    /\ loc' = [loc EXCEPT ![t].sent_rate =
                 Rate(loc[t].network.bytes_sent,
                      system_state.last_network[1].bytes_sent, loc[t].time_delta)]
    /\ pc' = [pc EXCEPT ![t] = "l127"]
    /\ UNCHANGED <<env, log, histories, system_state, retval, log_reply, cyc,
                   ncycles, nlog, nreads>>

\* line 127: the value of 'bytes_recv_per_sec'
gsi_l127(t) ==
    /\ pc[t] = "l127"
    /\ loc' = [loc EXCEPT ![t].recv_rate =
                 Rate(loc[t].network.bytes_recv,
                      system_state.last_network[1].bytes_recv, loc[t].time_delta)]
    /\ pc' = [pc EXCEPT ![t] = "l125"]
    /\ UNCHANGED <<env, log, histories, system_state, retval, log_reply, cyc,
                   ncycles, nlog, nreads>>

\* line 125: system_state['network_stats'] = {...}
gsi_l125(t) ==
    /\ pc[t] = "l125"
    /\ LET stats == [bytes_sent_per_sec |-> loc[t].sent_rate,
                     bytes_recv_per_sec |-> loc[t].recv_rate]
       IN  /\ system_state' = [system_state EXCEPT !.network_stats = stats]
           /\ cyc' = [cyc EXCEPT ![t].computed = TRUE, ![t].wrote = stats]
    /\ pc' = [pc EXCEPT ![t] = "l129"]
    /\ UNCHANGED <<env, log, histories, loc, retval, log_reply, ncycles, nlog, nreads>>

\* line 129: system_state['last_network'] = network
KeepPrevious(previous, network) == previous
StorePrevious(previous, network) == Some(network)
gsi_l129(t) ==
    /\ pc[t] = "l129"
    /\ system_state' = [system_state EXCEPT
                          !.last_network = StorePrevious(@, loc[t].network)]
    /\ pc' = [pc EXCEPT ![t] = "l130"]
    /\ UNCHANGED <<env, log, histories, loc, retval, log_reply, cyc, ncycles, nlog, nreads>>

\* line 130: system_state['last_time'] = time.time()
gsi_l130(t) ==
    /\ pc[t] = "l130"
    /\ \E now \in TimeReadings :
         system_state' = [system_state EXCEPT !.last_time = now]
    /\ pc' = [pc EXCEPT ![t] = "l136"]
    /\ UNCHANGED <<env, log, histories, loc, retval, log_reply, cyc, ncycles, nlog, nreads>>

\* lines 137-143: the loop over the sensor entries; fail_at = i > 0 means that
\* reading entry i raises, after the entries before it were collected
CollectTemperatures(r) ==
    LET n == IF r.fail_at > 0 THEN r.fail_at - 1 ELSE Len(r.entries)
    IN  [rows |-> [i \in 1 .. n |->
                     [label |-> r.entries[i].label,
                      current |-> r.entries[i].current,
                      high |-> IF r.entries[i].high = 0 THEN 100 ELSE r.entries[i].high]],
         raised |-> r.fail_at > 0]

\* lines 133-146: temperatures = []; the sensors are read inside a try block
\* of their own, whose handler logs a warning
gsi_l136(t) ==
    /\ pc[t] = "l136"
    /\ \E r \in TemperatureReadings :
       /\ cyc' = [cyc EXCEPT ![t].temp_read = TRUE, ![t].temp = r]
       /\ IF ~r.supported
           THEN /\ loc' = [loc EXCEPT ![t].temperatures = <<>>]
                /\ pc' = [pc EXCEPT ![t] = "l151"]
                /\ nlog' = nlog
           ELSE IF r.raises
           THEN /\ loc' = [loc EXCEPT ![t] =
                             LogCall([@ EXCEPT !.temperatures = <<>>], "warning",
                                     "Could not get temperature readings", "l151")]
                /\ pc' = [pc EXCEPT ![t] = "l74"]
                /\ nlog' = nlog + 1
           ELSE LET c == CollectTemperatures(r)
                IN  IF c.raised
                    THEN /\ loc' = [loc EXCEPT ![t] =
                                      LogCall([@ EXCEPT !.temperatures = c.rows], "warning",
                                              "Could not get temperature readings", "l151")]
                         /\ pc' = [pc EXCEPT ![t] = "l74"]
                         /\ nlog' = nlog + 1
                    ELSE /\ loc' = [loc EXCEPT ![t].temperatures = c.rows]
                         /\ pc' = [pc EXCEPT ![t] = "l144"]
                         /\ nlog' = nlog
    /\ UNCHANGED <<env, log, histories, system_state, retval, log_reply,
                   ncycles, nreads>>

\* line 144: system_state['temperature_data'] = temperatures
gsi_l144(t) ==
    /\ pc[t] = "l144"
    /\ system_state' = [system_state EXCEPT !.temperature_data = loc[t].temperatures]
    /\ pc' = [pc EXCEPT ![t] = "l151"]
    /\ UNCHANGED <<env, log, histories, loc, retval, log_reply, cyc, ncycles, nlog, nreads>>

\* line 162: round((usage.used / usage.total) * 100, 2), in hundredths of a percent
PercentOf(used, total) == ((used * 20000) \div total + 1) \div 2

\* whether reading partition p leaves the loop: an exception other than
\* PermissionError, or the division by a total of zero of line 162
PartitionRaisesOrDenied(p) == p.outcome # "ok" \/ p.total = 0
PartitionRaises(p) == p.outcome = "error" \/ (p.outcome = "ok" /\ p.total = 0)

\* lines 152-165: the loop over the partitions, from partition i on
RECURSIVE CollectPartitions(_, _, _)
CollectPartitions(parts, i, rows) ==
    IF i > Len(parts) THEN [rows |-> rows, raised |-> FALSE]
    ELSE IF PartitionRaises(parts[i]) THEN [rows |-> rows, raised |-> TRUE]
    ELSE IF parts[i].outcome = "permission" THEN CollectPartitions(parts, i + 1, rows)
    ELSE CollectPartitions(parts, i + 1,
             Append(rows, [device |-> parts[i].device,
                           mountpoint |-> parts[i].mountpoint,
                           fstype |-> parts[i].fstype,
                           percent |-> PercentOf(parts[i].used, parts[i].total)]))

\* lines 149-168: disk_partitions = []; the partitions are read inside a try
\* block of their own, whose handler logs a warning
gsi_l151(t) ==
    /\ pc[t] = "l151"
    /\ \E r \in PartitionReadings :
         LET c == IF r.raises THEN [rows |-> <<>>, raised |-> TRUE]
                  ELSE CollectPartitions(r.partitions, 1, <<>>)
         IN  /\ cyc' = [cyc EXCEPT ![t].parts_read = TRUE, ![t].parts = r]
             /\ IF c.raised
                THEN /\ loc' = [loc EXCEPT ![t] =
                                  LogCall([@ EXCEPT !.disk_partitions = c.rows], "warning",
                                          "Could not get disk partitions", "l171")]
                     /\ pc' = [pc EXCEPT ![t] = "l74"]
                     /\ nlog' = nlog + 1
                ELSE /\ loc' = [loc EXCEPT ![t].disk_partitions = c.rows]
                     /\ pc' = [pc EXCEPT ![t] = "l166"]
                     /\ nlog' = nlog
    /\ UNCHANGED <<env, log, histories, system_state, retval, log_reply,
                   ncycles, nreads>>

\* line 166: system_state['disk_data'] = disk_partitions
gsi_l166(t) ==
    /\ pc[t] = "l166"
    /\ system_state' = [system_state EXCEPT !.disk_data = loc[t].disk_partitions]
    /\ pc' = [pc EXCEPT ![t] = "l171"]
    /\ UNCHANGED <<env, log, histories, loc, retval, log_reply, cyc, ncycles, nlog, nreads>>

\* lines 171-189: the alert list
AlertsFromThreshold(cpu_percent, memory_percent, disk_percent) ==
    (IF cpu_percent >= 80
     THEN <<[type |-> "danger", message |-> "High CPU usage", value |-> cpu_percent]>>
     ELSE <<>>)
    \o (IF memory_percent >= 80
        THEN <<[type |-> "warning", message |-> "High memory usage", value |-> memory_percent]>>
        ELSE <<>>)
    \o (IF disk_percent >= 80
        THEN <<[type |-> "warning", message |-> "Low disk space", value |-> disk_percent]>>
        ELSE <<>>)
Alerts(cpu_percent, memory_percent, disk_percent) ==
    (IF cpu_percent > 80
     THEN <<[type |-> "danger", message |-> "High CPU usage", value |-> cpu_percent]>>
     ELSE <<>>)
    \o (IF memory_percent > 80
        THEN <<[type |-> "warning", message |-> "High memory usage", value |-> memory_percent]>>
        ELSE <<>>)
    \o (IF disk_percent > 80
        THEN <<[type |-> "warning", message |-> "Low disk space", value |-> disk_percent]>>
        ELSE <<>>)

gsi_l171(t) ==
    /\ pc[t] = "l171"
    /\ loc' = [loc EXCEPT ![t].alerts =
                 Alerts(loc[t].cpu_percent, loc[t].memory_percent, loc[t].disk_percent)]
    /\ pc' = [pc EXCEPT ![t] = "l192"]
    /\ UNCHANGED <<env, log, histories, system_state, retval, log_reply, cyc,
                   ncycles, nlog, nreads>>

\* line 192: cpu_history.append(cpu_percent)
gsi_l192(t) ==
    /\ pc[t] = "l192"
    /\ cpu_history' = DequeAppend(cpu_history, loc[t].cpu_percent, CPU_HISTORY_SIZE)
    /\ appended' = [appended EXCEPT !.cpu = Append(@, loc[t].cpu_percent),
                                    !.by.cpu = Append(@, cyc[t].n)]
    /\ cyc' = [cyc EXCEPT ![t].app.cpu = @ + 1]
    /\ pc' = [pc EXCEPT ![t] = "l193"]
    /\ UNCHANGED <<env, log, memory_history, network_history, temperature_history,
                   disk_history, system_state, loc, retval, log_reply,
                   ncycles, nlog, nreads>>

\* line 193: memory_history.append(memory.percent)
gsi_l193(t) ==
    /\ pc[t] = "l193"
    /\ memory_history' = DequeAppend(memory_history, loc[t].memory_percent,
                                     MEMORY_HISTORY_SIZE)
    /\ appended' = [appended EXCEPT !.memory = Append(@, loc[t].memory_percent),
                                    !.by.memory = Append(@, cyc[t].n)]
    /\ cyc' = [cyc EXCEPT ![t].app.memory = @ + 1]
    /\ pc' = [pc EXCEPT ![t] = "l194"]
    /\ UNCHANGED <<env, log, cpu_history, network_history, temperature_history,
                   disk_history, system_state, loc, retval, log_reply,
                   ncycles, nlog, nreads>>

\* line 194: network_history.append(system_state['network_stats'])
gsi_l194(t) ==
    /\ pc[t] = "l194"
    /\ network_history' = DequeAppend(network_history, system_state.network_stats,
                                      NETWORK_HISTORY_SIZE)
    /\ appended' = [appended EXCEPT !.network = Append(@, system_state.network_stats),
                                    !.by.network = Append(@, cyc[t].n)]
    /\ cyc' = [cyc EXCEPT ![t].app.network = @ + 1]
    /\ pc' = [pc EXCEPT ![t] = "l195"]
    /\ UNCHANGED <<env, log, cpu_history, memory_history, temperature_history,
                   disk_history, system_state, loc, retval, log_reply,
                   ncycles, nlog, nreads>>

\* line 195: temperature_history.append(temperatures)
gsi_l195(t) ==
    /\ pc[t] = "l195"
    /\ temperature_history' = DequeAppend(temperature_history, loc[t].temperatures,
                                          TEMPERATURE_HISTORY_SIZE)
    /\ appended' = [appended EXCEPT !.temperature = Append(@, loc[t].temperatures),
                                    !.by.temperature = Append(@, cyc[t].n)]
    /\ cyc' = [cyc EXCEPT ![t].app.temperature = @ + 1]
    /\ pc' = [pc EXCEPT ![t] = "l196"]
    /\ UNCHANGED <<env, log, cpu_history, memory_history, network_history,
                   disk_history, system_state, loc, retval, log_reply,
                   ncycles, nlog, nreads>>

\* line 196: disk_history.append(disk_partitions)
gsi_l196(t) ==
    /\ pc[t] = "l196"
    /\ disk_history' = DequeAppend(disk_history, loc[t].disk_partitions, DISK_HISTORY_SIZE)
    /\ appended' = [appended EXCEPT !.disk = Append(@, loc[t].disk_partitions),
                                    !.by.disk = Append(@, cyc[t].n)]
    /\ cyc' = [cyc EXCEPT ![t].app.disk = @ + 1]
    /\ pc' = [pc EXCEPT ![t] = "l198"]
    /\ UNCHANGED <<env, log, cpu_history, memory_history, network_history,
                   temperature_history, system_state, loc, retval, log_reply,
                   ncycles, nlog, nreads>>

\* lines 198-210: the returned dict; 'network' is read from system_state here
Snapshot(l, network_stats) ==
    [empty |-> FALSE,
     cpu_percent |-> l.cpu_percent,
     memory_percent |-> l.memory_percent,
     disk_percent |-> l.disk_percent,
     network |-> network_stats,
     temperatures |-> l.temperatures,
     alerts |-> l.alerts,
     disk_partitions |-> l.disk_partitions]

gsi_l198(t) ==
    /\ pc[t] = "l198"
    /\ retval' = [retval EXCEPT ![t] = Snapshot(loc[t], system_state.network_stats)]
    /\ cyc' = [cyc EXCEPT ![t].done = TRUE]
    /\ pc' = [pc EXCEPT ![t] = "idle"]
    /\ UNCHANGED <<env, log, histories, system_state, loc, log_reply, ncycles, nlog, nreads>>

\* lines 211-212: except Exception: log_system_event('error', ...)
gsi_l212(t) ==
    /\ pc[t] = "l212"
    /\ loc' = [loc EXCEPT ![t] = LogCall(@, "error", "Error getting system info", "l213")]
    /\ pc' = [pc EXCEPT ![t] = "l74"]
    /\ nlog' = nlog + 1
    /\ UNCHANGED <<env, log, histories, system_state, retval, log_reply, cyc,
                   ncycles, nreads>>

\* line 213: return {}
gsi_l213(t) ==
    /\ pc[t] = "l213"
    /\ retval' = [retval EXCEPT ![t] = EmptySnapshot]
    /\ cyc' = [cyc EXCEPT ![t].done = TRUE, ![t].failed = TRUE]
    /\ pc' = [pc EXCEPT ![t] = "idle"]
    /\ UNCHANGED <<env, log, histories, system_state, loc, log_reply, ncycles, nlog, nreads>>

get_system_info(t) ==
    \/ call_get_system_info(t)
    \/ gsi_l104(t) \/ gsi_l119(t) \/ gsi_l120(t) \/ gsi_l121(t) \/ gsi_l122(t)
    \/ gsi_l123(t) \/ gsi_l126(t) \/ gsi_l127(t) \/ gsi_l125(t) \/ gsi_l129(t)
    \/ gsi_l130(t) \/ gsi_l136(t) \/ gsi_l144(t) \/ gsi_l151(t) \/ gsi_l166(t)
    \/ gsi_l171(t) \/ gsi_l192(t) \/ gsi_l193(t) \/ gsi_l194(t) \/ gsi_l195(t)
    \/ gsi_l196(t) \/ gsi_l198(t) \/ gsi_l212(t) \/ gsi_l213(t)

-----------------------------------------------------------------------------
(* The request handlers that use the event log *)

\* what psutil.Process(pid).terminate() does in kill_process
KillOutcomes ==
    IF nlog < FreeCycles THEN {"terminated", "no_such_process", "access_denied"}
    ELSE {"terminated"}

\* lines 1767-1783: kill_process logs one event, whatever happens
kill_process(t) ==
    /\ t \in workers
    /\ pc[t] = "idle"
    /\ nlog < MaxLogEvents
    /\ \E o \in KillOutcomes :
         loc' = [loc EXCEPT ![t] =
                   CASE o = "terminated" ->
                          LogCall(@, "info", "Terminated process", "idle")
                     [] o = "no_such_process" ->
                          LogCall(@, "error", "Process not found", "idle")
                     [] OTHER ->
                          LogCall(@, "error", "Access denied", "idle")]
    /\ pc' = [pc EXCEPT ![t] = "l74"]
    /\ nlog' = nlog + 1
    /\ UNCHANGED <<env, log, histories, system_state, retval, log_reply, cyc,
                   ncycles, nreads>>

\* the number of entries a reader of the log asks for; the route of line 1810
\* takes no parameter
RequestedCounts == IF nlog <= FreeCycles THEN {1, LOG_WINDOW, MAX_LOG_ENTRIES} ELSE {LOG_WINDOW}

\* line 1812: SYSTEM_LOG[-50:]
RecentFirst(system_log, n) == SliceFirst(system_log, LOG_WINDOW)
Recent(system_log, n) == SliceLast(system_log, LOG_WINDOW)

\* lines 1810-1812: get_system_log
get_system_log(t) ==
    /\ t \in workers
    /\ pc[t] = "idle"
    /\ nreads < MaxReads
    /\ nreads' = nreads + 1
    /\ \E n \in RequestedCounts :
         log_reply' = [log_reply EXCEPT ![t] =
                         [served |-> TRUE, n |-> n,
                          value |-> Recent(SYSTEM_LOG, n), log |-> SYSTEM_LOG]]
    /\ UNCHANGED <<env, log, histories, system_state, pc, loc, retval, cyc,
                   ncycles, nlog>>

\* list(d): a new list that holds the items of the deque d
TheDeque(d) == [live |-> TRUE, items |-> <<>>]
ListOf(d) == [live |-> FALSE, items |-> d]

\* lines 238-244 and 1814-1816: get_system_performance_data; seen is a history
\* variable, what the deques held when the request was served.  The reader
\* of a long run asks while the inputs are free and once the histories are full.
get_system_performance_data(t) ==
    /\ t \in workers
    /\ pc[t] = "idle"
    /\ nreads < MaxReads
    /\ Free \/ ncycles >= CPU_HISTORY_SIZE
    /\ nreads' = nreads + 1
    /\ perf_reply' = [perf_reply EXCEPT ![t] =
                        [served |-> TRUE,
                         cpu_history |-> ListOf(cpu_history),
                         memory_history |-> ListOf(memory_history),
                         network_history |-> ListOf(network_history),
                         seen |-> [cpu_history |-> cpu_history,
                                   memory_history |-> memory_history,
                                   network_history |-> network_history]]]
    /\ UNCHANGED <<scenario, workers, fs, process_table, top_reply, log, histories,
                   system_state, pc, loc, retval, log_reply, cyc, ncycles, nlog>>

-----------------------------------------------------------------------------
(* delete_file, lines 1785-1808 *)

\* os.remove(path): removes a file that is there; raises for a directory and
\* for a path that is not there
RemoveRaises(path) == files[path] # "present" \/ IsDir(path)
\* lines 1791-1794: shutil.rmtree for a directory, os.remove otherwise
\* (os.path.isdir is False for a path that is not there)
DeleteRaises(path) == files[path] # "present"
\* send2trash(path): moves what is there to the trash; raises for a path that
\* is not there
TrashRaises(path) == files[path] # "present"

\* lines 1787-1804 and 1806-1807: the file operation and the call of
\* log_system_event that follows it; importable is whether
\* "from send2trash import send2trash" succeeds
delete_file(t) ==
    /\ t \in workers
    /\ pc[t] = "idle"
    /\ nlog < MaxDeletes
    /\ nlog' = nlog + 1
    /\ pc' = [pc EXCEPT ![t] = "l74"]
    /\ \E path \in Paths, permanent \in BOOLEAN, importable \in BOOLEAN :
         LET raises == IF permanent THEN DeleteRaises(path)
                       ELSE IF importable THEN TrashRaises(path)
                       ELSE RemoveRaises(path)
         IN  /\ delete_reply' = [delete_reply EXCEPT ![t] =
                                   [served |-> FALSE, path |-> path,
                                    permanent |-> permanent, status |-> ""]]
             /\ IF raises
                THEN /\ files' = files
                     /\ loc' = [loc EXCEPT ![t] =
                                  LogCall(@, "error", "Failed to delete", "l1808")]
                ELSE IF permanent
                THEN /\ files' = [files EXCEPT ![path] = "removed"]
                     /\ loc' = [loc EXCEPT ![t] =
                                  LogCall(@, "warning", "Permanently deleted", "l1805")]
                ELSE /\ files' = [files EXCEPT ![path] =
                                    IF importable THEN "trash" ELSE "removed"]
                     /\ loc' = [loc EXCEPT ![t] =
                                  LogCall(@, "info", "Moved to trash", "l1805")]
    /\ UNCHANGED <<scenario, workers, process_table, top_reply, perf_reply, log,
                   histories, system_state, retval, log_reply, cyc, ncycles, nreads>>

\* lines 1805 and 1808: return jsonify({'status': ...})
df_return(t) ==
    /\ pc[t] \in {"l1805", "l1808"}
    /\ delete_reply' = [delete_reply EXCEPT
                          ![t].served = TRUE,
                          ![t].status = IF pc[t] = "l1805" THEN "success" ELSE "error"]
    /\ pc' = [pc EXCEPT ![t] = "idle"]
    /\ UNCHANGED <<scenario, workers, files, process_table, top_reply, perf_reply, log,
                   histories, system_state, loc, retval, log_reply, cyc,
                   ncycles, nlog, nreads>>

-----------------------------------------------------------------------------
(* The process rankings: get_process_list, lines 81-98,                    *)
(* get_top_processes_by_memory, lines 246-263, get_top_processes_by_cpu,   *)
(* lines 265-282, and the route top_processes, lines 1757-1765             *)

\* a process starts on the host; its pid is its place in the enumeration
spawn_process ==
    /\ \A t \in Threads : pc[t] = "idle" /\ ~top_reply[t].served
    /\ Len(process_table) < MaxProcs
    /\ \E k \in ProcessReadings :
         process_table' = Append(process_table, [pid |-> Len(process_table) + 1] @@ k)
    /\ UNCHANGED <<scenario, workers, fs, top_reply, perf_reply, log, histories,
                   system_state, pc, loc, retval, log_reply, cyc, ncycles, nlog, nreads>>

\* the requests: /api/top_processes/cpu, /api/top_processes/memory,
\* /api/processes and /api/top_processes/<anything else>
Requests == {"cpu", "memory", "processes", "other"}
RankingMetric(request) == IF request = "memory" THEN "memory_percent" ELSE "cpu_percent"
RequestedFields(request) ==
    CASE request = "cpu" -> {"pid", "cpu_percent"}
      [] request = "memory" -> {"pid", "memory_percent"}
      [] OTHER -> {"pid", "cpu_percent", "memory_percent"}
ReturnLine(request) ==
    CASE request = "cpu" -> "l278"
      [] request = "memory" -> "l259"
      [] OTHER -> "l94"

\* lines 85-91, 250-256, 269-275: the loop over the processes; one that is
\* gone is skipped, one whose metric is None is not appended
CollectProcesses(table, metric, fields) ==
    LET Readable(p) == p.outcome = "ok" /\ p[metric] # None
        kept == SelectSeq(table, Readable)
    IN  [i \in 1 .. Len(kept) |-> [f \in fields |-> kept[i][f]]]

\* sorted(..., key=lambda x: x[metric], reverse=True) keeps rows of equal key
\* in the order of its input: p goes behind every row whose key is not smaller
InsertBeforeTies(sorted, p, metric) ==
    LET n == Cardinality({i \in 1 .. Len(sorted) : sorted[i][metric][1] > p[metric][1]})
    IN  SubSeq(sorted, 1, n) \o <<p>> \o SubSeq(sorted, n + 1, Len(sorted))
InsertDescending(sorted, p, metric) ==
    LET n == Cardinality({i \in 1 .. Len(sorted) : sorted[i][metric][1] >= p[metric][1]})
    IN  SubSeq(sorted, 1, n) \o <<p>> \o SubSeq(sorted, n + 1, Len(sorted))

RECURSIVE SortedDescending(_, _, _)
SortedDescending(rows, metric, sorted) ==
    IF rows = <<>> THEN sorted
    ELSE SortedDescending(Tail(rows), metric, InsertDescending(sorted, Head(rows), metric))

\* lines 94-98, 259-263, 278-282:
\* sorted([p for p in processes if p[metric] is not None], ...)[:10]
RankedOfFirst(processes, metric) ==
    LET HasMetric(p) == p[metric] # None
    IN  SortedDescending(SliceFirst(SelectSeq(processes, HasMetric), TOP_N), metric, <<>>)
Ranked(processes, metric) ==
    LET HasMetric(p) == p[metric] # None
    IN  SliceFirst(SortedDescending(SelectSeq(processes, HasMetric), metric, <<>>), TOP_N)

\* a ranking request arrives and enumerates the processes; process_iter may
\* raise before it yields the last process, which the handler of lines 92-93,
\* 257-258, 276-277 logs as an error; line 1765 answers any other category
\* with []
tp_call(t) ==
    /\ t \in workers
    /\ pc[t] = "idle"
    /\ ~top_reply[t].served
    /\ \E request \in Requests, raises \in BOOLEAN :
         LET metric == RankingMetric(request)
             seen == IF raises
                     THEN SubSeq(process_table, 1, Len(process_table) - 1)
                     ELSE process_table
             l == [loc[t] EXCEPT !.metric = metric,
                                 !.processes = CollectProcesses(seen, metric,
                                                                RequestedFields(request))]
         IN  IF request = "other"
             THEN /\ ~raises
                  /\ top_reply' = [top_reply EXCEPT ![t] =
                                     [served |-> TRUE, request |-> request,
                                      table |-> <<>>, value |-> <<>>]]
                  /\ UNCHANGED <<pc, loc, nlog>>
             ELSE /\ top_reply' = [top_reply EXCEPT ![t] =
                                     [served |-> FALSE, request |-> request,
                                      table |-> seen, value |-> <<>>]]
                  /\ IF raises
                     THEN /\ loc' = [loc EXCEPT ![t] =
                                       LogCall(l, "error", "Error getting process list",
                                               ReturnLine(request))]
                          /\ pc' = [pc EXCEPT ![t] = "l74"]
                          /\ nlog' = nlog + 1
                     ELSE /\ loc' = [loc EXCEPT ![t] = l]
                          /\ pc' = [pc EXCEPT ![t] = ReturnLine(request)]
                          /\ nlog' = nlog
    /\ UNCHANGED <<scenario, workers, fs, process_table, perf_reply, log, histories,
                   system_state, retval, log_reply, cyc, ncycles, nreads>>

\* lines 94, 259, 278: return sorted(...)[:10]
tp_return(t) ==
    /\ pc[t] \in {"l94", "l259", "l278"}
    /\ top_reply' = [top_reply EXCEPT ![t].served = TRUE,
                                      ![t].value = Ranked(loc[t].processes, loc[t].metric)]
    /\ pc' = [pc EXCEPT ![t] = "idle"]
    /\ UNCHANGED <<scenario, workers, fs, process_table, perf_reply, log, histories,
                   system_state, loc, retval, log_reply, cyc, ncycles, nlog, nreads>>

-----------------------------------------------------------------------------
(* Specifications *)

\* One request thread samples the host: the rate scenario.  The runs of the
\* sampling scenarios log fewer than MAX_LOG_ENTRIES events, so that line 76
\* is never reached in them.
Next == \E t \in Threads : get_system_info(t) \/ lse_l74(t) \/ lse_l75(t)
Spec == Init /\ [][Next]_vars

\* one request thread samples a steady host for more cycles than a history holds
HistSpec == HistInit /\ [][Next]_vars

\* two request threads sample the host at the same time
ConcSpec == ConcInit /\ [][Next]_vars

\* one request thread samples a host whose gauges are around the alert threshold
AlertSpec == AlertInit /\ [][Next]_vars

\* one request thread samples a host whose sensors, partitions, gauges and
\* network counters may fail to be read
DegradeSpec == DegradeInit /\ [][Next]_vars

\* one request thread samples a steady host and reads the histories
PerfNext == Next \/ \E t \in Threads : get_system_performance_data(t)
PerfSpec == PerfInit /\ [][PerfNext]_vars

\* two request threads sample, at the same time, a host whose network
\* counters and clock never go back: what is read grows with the number of
\* requests that have arrived
MonoSpec == MonoInit /\ [][Next]_vars

\* two request threads serve kill_process requests at the same time, on a
\* server whose log is nearly full
LogConcNext ==
    \E t \in Threads : kill_process(t) \/ lse_l74(t) \/ lse_l75(t) \/ lse_l76(t)
LogConcSpec == LogConcInit /\ [][LogConcNext]_vars

\* one request thread serves delete requests
DeleteNext == \E t \in Threads : delete_file(t) \/ df_return(t) \/ lse_l74(t) \/ lse_l75(t)
DeleteSpec == DeleteInit /\ [][DeleteNext]_vars

\* one request thread ranks the processes of a host on which processes start
RankNext ==
    \/ spawn_process
    \/ \E t \in Threads : tp_call(t) \/ tp_return(t) \/ lse_l74(t) \/ lse_l75(t)
RankSpec == RankInit /\ [][RankNext]_vars

\* one request thread serves kill_process and system_log requests, for more
\* events than the log holds
LogNext ==
    \E t \in Threads :
        kill_process(t) \/ lse_l74(t) \/ lse_l75(t) \/ lse_l76(t) \/ get_system_log(t)
LogSpec == LogInit /\ [][LogNext]_vars

-----------------------------------------------------------------------------
(* Properties *)

quiet == \A t \in Threads : pc[t] = "idle"

\* thread t's get_system_info has returned a Snapshot (not {}) and t has not
\* started another cycle
Returned(t) == cyc[t].done /\ ~cyc[t].failed

\* the elapsed time of thread t's cycle: the clock read of line 123 minus the
\* stored time of the previous reading
Elapsed(t) == cyc[t].tcur - cyc[t].prev_time

NonNegative(stats) ==
    stats.bytes_sent_per_sec.num >= 0 /\ stats.bytes_recv_per_sec.num >= 0

\* h holds the last min(Len(all), capacity) entries of all, in order
IsLastOf(h, all, capacity) ==
    /\ Len(h) = Min(Len(all), capacity)
    /\ \A i \in 1 .. Len(h) : h[i] = all[Len(all) - Len(h) + i]

\* C1: the rates stored in the rate state, returned in a Snapshot and
\* appended to the network history are never negative.
C1_RatesNonNegative ==
    /\ NonNegative(system_state.network_stats)
    /\ \A t \in Threads : Returned(t) => NonNegative(retval[t].network)
    /\ \A i \in 1 .. Len(network_history) : NonNegative(network_history[i])

\* C2: a cycle with positive elapsed time that reads a counter lower than the
\* stored previous value reports the rate 0 for that counter, and afterwards
\* the stored previous reading is the new, lower reading.
C2_ResetReportsZero ==
    \A t \in Threads :
        (Returned(t) /\ Elapsed(t) > 0) =>
            /\ loc[t].network.bytes_sent < cyc[t].prev_net.bytes_sent =>
                 /\ retval[t].network.bytes_sent_per_sec.num = 0
                 /\ system_state.last_network = Some(loc[t].network)
            /\ loc[t].network.bytes_recv < cyc[t].prev_net.bytes_recv =>
                 /\ retval[t].network.bytes_recv_per_sec.num = 0
                 /\ system_state.last_network = Some(loc[t].network)

\* C3: a cycle whose elapsed time is zero or negative returns the rate sample
\* that was stored when it began, and leaves the stored sample as it was.
C3_NoElapsedReusesRate ==
    \A t \in Threads :
        (Returned(t) /\ Elapsed(t) <= 0) =>
            /\ retval[t].network = cyc[t].stats0
            /\ system_state.network_stats = cyc[t].stats0

\* a cycle with no elapsed time that followed one which stored a rate other
\* than 0
C3_Witness ==
    \E t \in Threads :
        /\ Returned(t) /\ Elapsed(t) <= 0
        /\ cyc[t].stats0.bytes_sent_per_sec.num > 0
        /\ retval[t].network = cyc[t].stats0

\* C4: with positive elapsed time and a counter not lower than before, the
\* reported rate is (current - previous) / (current time - previous time),
\* for the sent and for the received counter separately.
C4_RateIsDeltaOverElapsed ==
    \A t \in Threads :
        (Returned(t) /\ Elapsed(t) > 0) =>
            /\ loc[t].network.bytes_sent >= cyc[t].prev_net.bytes_sent =>
                 /\ retval[t].network.bytes_sent_per_sec.den > 0
                 /\ retval[t].network.bytes_sent_per_sec.num * Elapsed(t) =
                      (loc[t].network.bytes_sent - cyc[t].prev_net.bytes_sent)
                        * retval[t].network.bytes_sent_per_sec.den
            /\ loc[t].network.bytes_recv >= cyc[t].prev_net.bytes_recv =>
                 /\ retval[t].network.bytes_recv_per_sec.den > 0
                 /\ retval[t].network.bytes_recv_per_sec.num * Elapsed(t) =
                      (loc[t].network.bytes_recv - cyc[t].prev_net.bytes_recv)
                        * retval[t].network.bytes_recv_per_sec.den

\* a cycle in which the sent counter grew and the received counter stood still
C4_Witness ==
    \E t \in Threads :
        /\ Returned(t) /\ Elapsed(t) > 0
        /\ loc[t].network.bytes_sent > cyc[t].prev_net.bytes_sent
        /\ loc[t].network.bytes_recv = cyc[t].prev_net.bytes_recv
        /\ retval[t].network.bytes_sent_per_sec.num > 0
        /\ retval[t].network.bytes_recv_per_sec.num = 0

\* C5: after every cycle that read the network counters, the stored previous
\* reading is the reading of that cycle.
C5_PreviousIsThisReading ==
    \A t \in Threads :
        (cyc[t].done /\ cyc[t].read_net) =>
            system_state.last_network = Some(loc[t].network)

\* a cycle with no elapsed time whose reading differs from the one stored before
C5_Witness ==
    \E t \in Threads :
        /\ cyc[t].done /\ cyc[t].read_net /\ ~cyc[t].baseline
        /\ Elapsed(t) <= 0
        /\ loc[t].network # cyc[t].prev_net
        /\ loc[t].network.bytes_sent < cyc[t].prev_net.bytes_sent
        /\ system_state.last_network = Some(loc[t].network)

\* C6: each history holds at most its capacity of entries, and they are the
\* last min(n, capacity) values appended to it, in the order of the appends.
C6_HistoriesHoldLastAppended ==
    /\ IsLastOf(cpu_history, appended.cpu, CPU_HISTORY_SIZE)
    /\ IsLastOf(memory_history, appended.memory, MEMORY_HISTORY_SIZE)
    /\ IsLastOf(network_history, appended.network, NETWORK_HISTORY_SIZE)
    /\ IsLastOf(temperature_history, appended.temperature, TEMPERATURE_HISTORY_SIZE)
    /\ IsLastOf(disk_history, appended.disk, DISK_HISTORY_SIZE)
    /\ Len(cpu_history) <= CPU_HISTORY_SIZE
    /\ Len(memory_history) <= MEMORY_HISTORY_SIZE
    /\ Len(network_history) <= NETWORK_HISTORY_SIZE
    /\ Len(temperature_history) <= TEMPERATURE_HISTORY_SIZE
    /\ Len(disk_history) <= DISK_HISTORY_SIZE

\* every history has evicted an entry, and its oldest and newest entries differ
C6_Witness ==
    /\ quiet
    /\ Len(appended.cpu) > CPU_HISTORY_SIZE
    /\ Len(appended.disk) > DISK_HISTORY_SIZE
    /\ Len(cpu_history) = CPU_HISTORY_SIZE
    /\ cpu_history[1] # appended.cpu[1]
    /\ cpu_history[CPU_HISTORY_SIZE] = appended.cpu[Len(appended.cpu)]
    /\ network_history[1] # network_history[NETWORK_HISTORY_SIZE]

\* C7: after n log_system_event calls made one after the other, SYSTEM_LOG is
\* the last min(n, 100) recorded entries in the order they were recorded; once
\* more than 100 were recorded the first one is gone and the newest is there.
C7_LogHoldsLastRecorded ==
    quiet =>
        /\ Len(recorded) = nlog
        /\ IsLastOf(SYSTEM_LOG, recorded, MAX_LOG_ENTRIES)
        /\ nlog > MAX_LOG_ENTRIES =>
             /\ \A i \in 1 .. Len(SYSTEM_LOG) : SYSTEM_LOG[i] # recorded[1]
             /\ SYSTEM_LOG[Len(SYSTEM_LOG)] = recorded[nlog]

\* 101 events were recorded
C7_Witness ==
    /\ quiet
    /\ nlog = MAX_LOG_ENTRIES + 1
    /\ Len(SYSTEM_LOG) = MAX_LOG_ENTRIES
    /\ SYSTEM_LOG[1] = recorded[2]

\* C8: in every state, those between the steps of a log_system_event call
\* included, SYSTEM_LOG holds at most 100 entries.
C8_LogWithinCapacity == Len(SYSTEM_LOG) <= MAX_LOG_ENTRIES

C10_SnapshotRateIsOwn ==
    \A t \in Threads :
        (Returned(t) /\ cyc[t].computed) => retval[t].network = cyc[t].wrote


\* a cycle has run through the history appends of lines 192-196, so that (one
\* request thread) a get_system_info call has returned a Snapshot
SomeCycleSucceeded == Len(appended.disk) > 0

\* C11: once a cycle has succeeded, a read of the current Snapshot
\* (system_info returns what get_system_info returns) never yields the empty
\* Snapshot, whatever fails in a later cycle.
C11_NeverEmptyAfterSuccess ==
    \A t \in Threads :
        (cyc[t].done /\ SomeCycleSucceeded) => ~retval[t].empty


\* the number of alerts of the given type and message in a list
CountOf(alerts, type, message) ==
    Cardinality({i \in 1 .. Len(alerts) :
                    alerts[i].type = type /\ alerts[i].message = message})
OneIf(b) == IF b THEN 1 ELSE 0

\* C12: the alerts of a Snapshot are one danger alert iff cpu > 80, one
\* warning iff memory > 80, one warning iff disk > 80, and nothing else; a
\* gauge of exactly 80 raises none.
C12_AlertsMatchGauges ==
    \A t \in Threads :
        Returned(t) =>
            LET s == retval[t]
            IN  /\ CountOf(s.alerts, "danger", "High CPU usage") = OneIf(s.cpu_percent > 80)
                /\ CountOf(s.alerts, "warning", "High memory usage")
                     = OneIf(s.memory_percent > 80)
                /\ CountOf(s.alerts, "warning", "Low disk space") = OneIf(s.disk_percent > 80)
                /\ Len(s.alerts) = OneIf(s.cpu_percent > 80) + OneIf(s.memory_percent > 80)
                                     + OneIf(s.disk_percent > 80)
C12_Witness ==
    \E t \in Threads :
        /\ Returned(t)
        /\ retval[t].cpu_percent = 80
        /\ retval[t].memory_percent = 85
        /\ retval[t].disk_percent = 80
        /\ Len(retval[t].alerts) = 1
        /\ retval[t].alerts[1].type = "warning"


\* thread t's ranking request has returned a ranking by top_reply[t]'s metric
Ranking(t) == top_reply[t].served /\ top_reply[t].request # "other"
\* the rows of the enumerated table that can be ranked by metric m
Rankable(table, m) ==
    {i \in 1 .. Len(table) : table[i].outcome = "ok" /\ table[i][m] # None}
\* the pids of a ranking
Pids(v) == {v[i].pid : i \in 1 .. Len(v)}

\* C13: a ranking has at most 10 rows, each a row of the process table with a
\* non-null ranking metric, in non-increasing order of that metric; no row
\* left out that has a non-null metric is strictly greater than a returned one.
C13_TopRowsRanked ==
    \A t \in Threads :
        Ranking(t) =>
            LET m == RankingMetric(top_reply[t].request)
                table == top_reply[t].table
                v == top_reply[t].value
            IN  /\ Len(v) <= 10
                /\ \A i \in 1 .. Len(v) :
                     /\ v[i][m] # None
                     /\ v[i].pid \in Rankable(table, m)
                     /\ v[i][m] = table[v[i].pid][m]
                /\ \A i, j \in 1 .. Len(v) : i < j => v[i][m][1] >= v[j][m][1]
                /\ \A k \in Rankable(table, m) \ Pids(v) :
                     \A i \in 1 .. Len(v) : table[k][m][1] <= v[i][m][1]
C13_Witness ==
    \E t \in Threads :
        /\ Ranking(t)
        /\ Len(top_reply[t].value) = 10
        /\ LET m == RankingMetric(top_reply[t].request)
               table == top_reply[t].table
           IN  /\ \E k \in 1 .. Len(table) : table[k][m] = None
               /\ Rankable(table, m) \ Pids(top_reply[t].value) # {}
               /\ top_reply[t].value[1][m] = Some(90)
               /\ top_reply[t].value[1].pid = Len(table)

\* C14: rows of a ranking with equal metric are in enumeration order, and a
\* row left out with the metric of a returned row was enumerated after it:
\* with C13 this leaves one possible ranking of a process table.
C14_TiesInEnumerationOrder ==
    \A t \in Threads :
        Ranking(t) =>
            LET m == RankingMetric(top_reply[t].request)
                table == top_reply[t].table
                v == top_reply[t].value
            IN  /\ \A i, j \in 1 .. Len(v) :
                     (i < j /\ v[i][m] = v[j][m]) => v[i].pid < v[j].pid
                /\ \A k \in Rankable(table, m) \ Pids(v) :
                     \A i \in 1 .. Len(v) : table[k][m] = v[i][m] => v[i].pid < k
C14_Witness ==
    \E t \in Threads :
        /\ Ranking(t)
        /\ LET m == RankingMetric(top_reply[t].request)
               v == top_reply[t].value
           IN  /\ Len(v) = 10
               /\ v[1][m] = Some(90) /\ v[2][m] = Some(90) /\ v[3][m] = Some(5)
               /\ v[1].pid > v[3].pid
               /\ Rankable(top_reply[t].table, m) \ Pids(v) # {}


\* the entries logged since thread t's cycle began (one request thread)
LoggedBy(t) == SubSeq(recorded, cyc[t].logged0 + 1, Len(recorded))
Logged(t, level, message) ==
    Cardinality({i \in 1 .. Len(LoggedBy(t)) :
                    LoggedBy(t)[i].level = level /\ LoggedBy(t)[i].message = message})

\* the temperature read of thread t's cycle failed: the call raised, or reading
\* one of the entries did
TemperatureFailed(t) ==
    /\ cyc[t].temp_read
    /\ cyc[t].temp.supported
    /\ cyc[t].temp.raises \/ cyc[t].temp.fail_at > 0

\* C15: a cycle whose temperature read fails, at the call or after some
\* entries were collected, returns a Snapshot with an empty temperature list
\* and logs exactly one warning for it.
C15_FailedTemperaturesEmpty ==
    \A t \in Threads :
        (cyc[t].done /\ TemperatureFailed(t)) =>
            /\ ~cyc[t].failed
            /\ retval[t].temperatures = <<>>
            /\ Logged(t, "warning", "Could not get temperature readings") = 1

\* C16: a cycle in which a gauge read fails still returns a Snapshot, and
\* logs the failure as a warning.
C16_GaugeFailureDegrades ==
    \A t \in Threads :
        (cyc[t].done /\ cyc[t].gauge_raised) =>
            /\ ~retval[t].empty
            /\ \E i \in 1 .. Len(LoggedBy(t)) : LoggedBy(t)[i].level = "warning"

\* every read of thread t's cycle succeeded
AllReadsSucceeded(t) ==
    /\ ~cyc[t].gauge_raised /\ ~cyc[t].net_raised
    /\ cyc[t].temp_read /\ cyc[t].temp.supported
    /\ ~cyc[t].temp.raises /\ cyc[t].temp.fail_at = 0
    /\ cyc[t].parts_read /\ ~cyc[t].parts.raises
    /\ \A i \in 1 .. Len(cyc[t].parts.partitions) :
         cyc[t].parts.partitions[i].outcome = "ok"
\* thread t's cycle returned a Snapshot with a row for every sensor entry and
\* every partition that was read
FullSnapshot(t) ==
    /\ ~retval[t].empty
    /\ Len(retval[t].temperatures) = Len(cyc[t].temp.entries)
    /\ Len(retval[t].disk_partitions) = Len(cyc[t].parts.partitions)
    /\ Len(LoggedBy(t)) = 0

\* C17: no failure of a read leaves get_system_info as an exception, every
\* cycle that is under way can take its next step, and a cycle whose reads
\* all succeed returns a full Snapshot whatever failed in the cycles before.
C17_CyclesAlwaysReturn ==
    \A t \in Threads :
        /\ pc[t] # "raised"
        /\ pc[t] # "idle" => ENABLED (get_system_info(t) \/ lse_l74(t) \/ lse_l75(t))
        /\ (cyc[t].done /\ AllReadsSucceeded(t)) => FullSnapshot(t)
C17_Witness ==
    \E t \in Threads :
        /\ cyc[t].done /\ AllReadsSucceeded(t) /\ FullSnapshot(t)
        /\ \E i \in 1 .. Len(recorded) :
             recorded[i].level = "error" /\ recorded[i].message = "Error getting system info"

\* the partitions of a reading whose usage could be read
Readable(partitions) ==
    LET Ok(p) == p.outcome = "ok"
    IN  SelectSeq(partitions, Ok)
\* of the partitions of thread t's cycle, some raise a permission error and
\* none fails otherwise
PermissionOnly(t) ==
    /\ cyc[t].parts_read /\ ~cyc[t].parts.raises
    /\ \A i \in 1 .. Len(cyc[t].parts.partitions) :
         LET p == cyc[t].parts.partitions[i]
         IN  p.outcome \in {"ok", "permission"} /\ p.total > 0
    /\ \E i \in 1 .. Len(cyc[t].parts.partitions) :
         cyc[t].parts.partitions[i].outcome = "permission"

\* C18: a cycle in which reading a partition raises a permission error
\* returns a Snapshot whose partition table has every other partition, in
\* enumeration order.
C18_DeniedPartitionSkipped ==
    \A t \in Threads :
        (cyc[t].done /\ PermissionOnly(t)) =>
            LET kept == Readable(cyc[t].parts.partitions)
                v == retval[t].disk_partitions
            IN  /\ ~cyc[t].failed
                /\ Len(v) = Len(kept)
                /\ \A i \in 1 .. Len(v) :
                     /\ v[i].device = kept[i].device
                     /\ v[i].mountpoint = kept[i].mountpoint
C18_Witness ==
    \E t \in Threads :
        /\ Returned(t) /\ PermissionOnly(t)
        /\ Len(cyc[t].parts.partitions) = 3
        /\ Len(retval[t].disk_partitions) = 2
        /\ retval[t].disk_partitions[1].mountpoint = "/"
        /\ retval[t].disk_partitions[2].mountpoint = "/data"


\* the items a reader finds in a list it was given: those of the list, or
\* those of the deque if the list is the deque itself
Observed(list, deque) == IF list.live THEN deque ELSE list.items

\* C19: the sequences a history request returned keep the length and the
\* contents they had when they were returned, whatever later cycles append
\* and evict.
C19_ReturnedHistoryFrozen ==
    \A t \in Threads :
        perf_reply[t].served =>
            /\ Observed(perf_reply[t].cpu_history, cpu_history)
                 = perf_reply[t].seen.cpu_history
            /\ Observed(perf_reply[t].memory_history, memory_history)
                 = perf_reply[t].seen.memory_history
            /\ Observed(perf_reply[t].network_history, network_history)
                 = perf_reply[t].seen.network_history
C19_Witness ==
    \E t \in Threads :
        /\ perf_reply[t].served
        /\ Len(perf_reply[t].seen.cpu_history) = CPU_HISTORY_SIZE
        /\ Len(cpu_history) = CPU_HISTORY_SIZE
        /\ cpu_history[1] # perf_reply[t].seen.cpu_history[1]
        /\ network_history # perf_reply[t].seen.network_history
        /\ Observed(perf_reply[t].cpu_history, cpu_history)[1]
             = perf_reply[t].seen.cpu_history[1]


\* thread t, which serves a system_info (or resources) request, takes a step
RequestStep(t) == pc'[t] # pc[t]

\* C20: no step of a thread that serves a read of the current Snapshot
\* appends to a history or changes the stored previous counter reading or
\* the stored rate.
C20_ReadsChangeNothing ==
    [][\A t \in Threads :
         RequestStep(t) =>
            /\ UNCHANGED <<cpu_history, memory_history, network_history,
                           temperature_history, disk_history>>
            /\ system_state'.last_network = system_state.last_network
            /\ system_state'.network_stats = system_state.network_stats]_vars


\* the entries ever logged about the temperature sensors (the only message
\* the program has for them is that of line 146)
TemperatureEntries ==
    {i \in 1 .. Len(recorded) : recorded[i].message = "Could not get temperature readings"}

\* C21: once a cycle has found temperature sensing unsupported, its
\* temperature list is empty, no error-level entry was logged for it, and the
\* Event Log has recorded the condition exactly once.
C21_UnsupportedLoggedOnce ==
    \A t \in Threads :
        (cyc[t].done /\ cyc[t].temp_read /\ ~cyc[t].temp.supported) =>
            /\ retval[t].temperatures = <<>>
            /\ \A i \in TemperatureEntries : recorded[i].level # "error"
            /\ Cardinality(TemperatureEntries) = 1


Kinds == {"cpu", "memory", "network", "temperature", "disk"}
\* thread t's cycle has appended k entries to each of the five histories
AppendedEach(t, k) == \A kind \in Kinds : cyc[t].app[kind] = k
\* a read of thread t's cycle raised into the handler of line 211
Aborted(t) == cyc[t].failed \/ cyc[t].gauge_raised \/ cyc[t].net_raised

\* C22: a cycle that has returned has appended one entry to each of the five
\* histories or none to any; a cycle that failed or aborted has appended none.
C22_AppendsAllOrNone ==
    \A t \in Threads :
        /\ cyc[t].done => (AppendedEach(t, 1) \/ AppendedEach(t, 0))
        /\ Aborted(t) => AppendedEach(t, 0)
C22_Witness ==
    \E t \in Threads :
        /\ Returned(t) /\ AppendedEach(t, 1)
        /\ TemperatureFailed(t) /\ cyc[t].parts.raises
        /\ Len(appended.cpu) = 1
        /\ cyc[t].n = 2


\* thread t is at a line a cycle that fails in total passes through: the call,
\* the reads of lines 104-119, the handler of lines 211-213 and its call of
\* log_system_event
OnFailingPath(t) ==
    \/ pc[t] \in {"idle", "l104", "l119", "l212", "l213"}
    \/ pc[t] \in {"l74", "l75", "l76"} /\ loc[t].ret_pc = "l213"

\* C23: a cycle that failed in total has logged one entry, at error level,
\* and no step on its way wrote a history, the stored previous reading, its
\* timestamp or the stored rate.
C23_FailedCycleOnlyLogs ==
    /\ [](\A t \in Threads :
            (cyc[t].done /\ cyc[t].failed) =>
                /\ Len(LoggedBy(t)) = 1
                /\ LoggedBy(t)[1].level = "error"
                /\ SYSTEM_LOG[Len(SYSTEM_LOG)] = LoggedBy(t)[1]
                /\ AppendedEach(t, 0))
    /\ [][\A t \in Threads :
            (OnFailingPath(t) /\ pc'[t] # pc[t]) =>
                /\ UNCHANGED <<cpu_history, memory_history, network_history,
                               temperature_history, disk_history>>
                /\ system_state' = system_state]_vars
C23_Witness ==
    \E t \in Threads :
        /\ cyc[t].done /\ cyc[t].failed /\ cyc[t].net_raised
        /\ Len(cpu_history) = 2
        /\ system_state.last_network # None
        /\ system_state.network_stats.bytes_sent_per_sec.num > 0
        /\ Len(LoggedBy(t)) = 1


\* thread t's delete request without the permanent flag has reported success
\* (it has then logged the info event 'Moved to trash', line 1804)
TrashedReported(t) ==
    /\ delete_reply[t].served
    /\ ~delete_reply[t].permanent
    /\ delete_reply[t].status = "success"

\* C24: when a delete request without the permanent flag reports success,
\* having logged 'Moved to trash', the file is in the trash, not removed.
C24_TrashNeverRemoves ==
    \A t \in Threads :
        TrashedReported(t) =>
            /\ recorded[Len(recorded)].message = "Moved to trash"
            /\ files[delete_reply[t].path] = "trash"


\* C25: with counters that never decrease, whatever the interleaving of the
\* cycles, no stored or returned rate is negative, and a cycle that computes
\* its rates finds a stored previous reading that is not ahead of its own.
C25_NoNegativeRateInterleaved ==
    /\ NonNegative(system_state.network_stats)
    /\ \A t \in Threads :
         /\ Returned(t) => NonNegative(retval[t].network)
         /\ pc[t] \in {"l126", "l127"} =>
              /\ system_state.last_network[1].bytes_sent <= loc[t].network.bytes_sent
              /\ system_state.last_network[1].bytes_recv <= loc[t].network.bytes_recv


\* C26: whatever the interleaving of concurrent log_system_event calls, no
\* more entries have been removed than calls have been made, and once all
\* calls have returned the log holds at most 100 entries, the most recently
\* appended ones in the order they were appended.
C26_LogSettlesAtCapacity ==
    /\ Len(recorded) - Len(SYSTEM_LOG) <= nlog - Len(NearlyFull)
    /\ quiet =>
         /\ Len(SYSTEM_LOG) <= 100
         /\ Len(SYSTEM_LOG) <= Len(recorded)
         /\ \A i \in 1 .. Len(SYSTEM_LOG) :
              SYSTEM_LOG[i] = recorded[Len(recorded) - Len(SYSTEM_LOG) + i]
\* two calls that both saw 101 entries have each removed one
C26_Witness ==
    /\ quiet
    /\ Len(recorded) > 100
    /\ Len(SYSTEM_LOG) < 100
    /\ \E i \in 1 .. Len(SYSTEM_LOG) - 1 : SYSTEM_LOG[i].serial > SYSTEM_LOG[i + 1].serial


EndsWith(h, x) == Len(h) > 0 /\ h[Len(h)] = x

\* C27: after a successful cycle, the last entry of the CPU, memory, network,
\* temperature and disk histories is the cpu_percent, the memory percent, the
\* network rate, the temperature list and the disk-partition list of the
\* Snapshot that cycle returned.
C27_LastEntriesAreSnapshot ==
    \A t \in Threads :
        Returned(t) =>
            /\ EndsWith(cpu_history, retval[t].cpu_percent)
            /\ EndsWith(memory_history, retval[t].memory_percent)
            /\ EndsWith(network_history, retval[t].network)
            /\ EndsWith(temperature_history, retval[t].temperatures)
            /\ EndsWith(disk_history, retval[t].disk_partitions)
\* a cycle has returned after the histories are full and have evicted
C27_Witness ==
    \E t \in Threads :
        /\ Returned(t)
        /\ Len(appended.disk) > DISK_HISTORY_SIZE
        /\ Len(disk_history) = DISK_HISTORY_SIZE
        /\ disk_history[1] # disk_history[Len(disk_history)]


\* the cycles that ended in the handler of lines 211-213 each left one entry
FailedCycles ==
    Cardinality({i \in 1 .. Len(recorded) :
                    /\ recorded[i].level = "error"
                    /\ recorded[i].message = "Error getting system info"})
SuccessfulCycles == ncycles - FailedCycles

\* C28: whenever no cycle is in progress, the CPU, memory, network,
\* temperature and disk histories all have the same length, the smaller of
\* the number of successful cycles so far and 60.
C28_HistoryLengths ==
    quiet =>
        /\ Len(cpu_history) = Min(SuccessfulCycles, 60)
        /\ Len(memory_history) = Min(SuccessfulCycles, 60)
        /\ Len(network_history) = Min(SuccessfulCycles, 60)
        /\ Len(temperature_history) = Min(SuccessfulCycles, 60)
        /\ Len(disk_history) = Min(SuccessfulCycles, 60)
\* more than 60 cycles have succeeded and one has failed
C28_Witness ==
    /\ quiet
    /\ SuccessfulCycles > 60
    /\ FailedCycles > 0
    /\ Len(cpu_history) = 60


\* C29: a cycle that reads the network counters while no previous reading is
\* stored takes its own reading as the previous one, and the sent and the
\* received rate it stores, returns and appends are both 0, whatever the
\* counters and the clock read.
C29_FirstCycleReportsZero ==
    \A t \in Threads :
        (Returned(t) /\ cyc[t].baseline) =>
            /\ cyc[t].prev_net = loc[t].network
            /\ retval[t].network.bytes_sent_per_sec.num = 0
            /\ retval[t].network.bytes_recv_per_sec.num = 0
            /\ system_state.network_stats = retval[t].network
            /\ EndsWith(network_history, retval[t].network)
\* the first reading has non-zero counters and the clock has moved on between
\* line 122 and line 123, so that lines 125-128 compute the rate
C29_Witness ==
    \E t \in Threads :
        /\ Returned(t) /\ cyc[t].baseline /\ cyc[t].computed
        /\ Elapsed(t) > 0
        /\ loc[t].network.bytes_sent > 0
        /\ loc[t].network.bytes_recv > 0


HistoryOf(k) ==
    CASE k = "cpu" -> cpu_history
      [] k = "memory" -> memory_history
      [] k = "network" -> network_history
      [] k = "temperature" -> temperature_history
      [] k = "disk" -> disk_history
\* the cycle that appended entry i of history k: the history holds the last
\* Len(HistoryOf(k)) of the values appended to it
AppenderOf(k, i) == appended.by[k][Len(appended.by[k]) - Len(HistoryOf(k)) + i]
\* the cycles that appended the entries at index i of the five histories, as
\* far as the histories reach
AppendersAt(i) ==
    {AppenderOf(k, i) : k \in {k \in Kinds : i <= Len(HistoryOf(k))}}

\* C30: for every index i, the i-th entries of the CPU, memory, network,
\* temperature and disk histories were appended by the same cycle, also when
\* cycles have run concurrently; stated for the states in which every cycle
\* has returned, where the five histories have the same length.
C30_RowsFromOneCycle ==
    quiet => \A i \in 1 .. Len(cpu_history) : Cardinality(AppendersAt(i)) = 1

=============================================================================
